---- MODULE Spec2Model ----
(***************************************************************************)
(* Model of the todo API (todo-app/backend/app.js): the JSON document on   *)
(* disk, the five Express routes, and the read-modify-write cycle each     *)
(* mutating route runs against the file.  A route is split where its code  *)
(* awaits the file system: the synchronous prefix, the continuation after  *)
(* readTodos(), and the continuation after writeTodos().  Spec, SeqSpec    *)
(* and ScenarioSpec take a writeFile that succeeds as one step; TornSpec    *)
(* splits it where the file is opened, FaultSpec lets it fail, and         *)
(* RoundTripSpec applies readTodos and writeTodos to stored documents.     *)
(***************************************************************************)
EXTENDS Integers, Sequences, FiniteSets, TLC

(***************************************************************************)
(* Bounds of the model.                                                    *)
(***************************************************************************)
MaxLen      == 2    \* longest text sent in a request body
MaxClock    == 1    \* last millisecond the clock reaches
NumRand     == 2    \* distinct outcomes of Math.random()
MaxRequests == 2    \* requests sent in one behaviour
MaxSeed     == 2    \* items in the collection when the behaviour starts
MaxInFlight == 2    \* requests the server handles at the same time

(***************************************************************************)
(* JSON values.  A value is a tag and the characters of its rendering;     *)
(* Undefined is the value of a key that an object does not have.           *)
(***************************************************************************)
Chars == {" ", "a"}

Strings == UNION {[1..n -> Chars] : n \in 0..MaxLen}

Str(s) == [t |-> "string", v |-> s]

Undefined == [t |-> "undefined", v |-> <<>>]

Null == [t |-> "null", v |-> <<>>]

True == [t |-> "boolean", v |-> <<"true">>]

False == [t |-> "boolean", v |-> <<"false">>]

Num(d) == [t |-> "number", v |-> <<d>>]

\* the values a client puts under "text": absent, a string, or another JSON value
TextInputs == {Undefined, Null, Num("1")} \cup {Str(s) : s \in Strings}

\* the values a client puts under "completed"
CompletedInputs == {Undefined, True, False, Null}

\* JavaScript's !x
Falsy(x) ==
    \/ x.t \in {"undefined", "null"}
    \/ x = False
    \/ x = Num("0")
    \/ x = Str(<<>>)

\* String.prototype.trim
RECURSIVE TrimStart(_)
TrimStart(s) == IF s # <<>> /\ Head(s) = " " THEN TrimStart(Tail(s)) ELSE s

RECURSIVE TrimEnd(_)
TrimEnd(s) ==
    IF s # <<>> /\ s[Len(s)] = " " THEN TrimEnd(SubSeq(s, 1, Len(s) - 1)) ELSE s

Trim(s) == TrimEnd(TrimStart(s))

\* Number.prototype.toString, base 10
DigitChar == <<"0", "1", "2", "3", "4", "5", "6", "7", "8", "9">>

RECURSIVE DecStr(_)
DecStr(n) ==
    IF n < 10 THEN <<DigitChar[n + 1]>>
    ELSE DecStr(n \div 10) \o <<DigitChar[(n % 10) + 1]>>

\* Math.random().toString(36).substr(2, 9): one of a few strings
RandChar == <<"x", "y", "z", "w", "v", "u">>

RandStrs == {<<RandChar[i]>> : i \in 1..NumRand}

\* generateId at time now with random outcome rnd
GenerateId(now, rnd) == DecStr(now) \o rnd

\* new Date().toISOString() at time now
ToISOString(now) == DecStr(now) \o <<"Z">>

(***************************************************************************)
(* Items and the stored document.                                          *)
(***************************************************************************)
Keys == <<"id", "text", "completed", "createdAt", "updatedAt">>

\* JSON.stringify of one object: its defined keys, in insertion order
StringifyObject(todo) ==
    LET pairs == [i \in 1..Len(Keys) |-> <<Keys[i], todo[Keys[i]]>>]
    IN  SelectSeq(pairs, LAMBDA p : p[2] # Undefined)

\* JSON.stringify(todos, null, 2)
Stringify(todos) == [i \in 1..Len(todos) |-> StringifyObject(todos[i])]

\* ParseObject of a parser that knows the keys of a new item only
ParseObjectCreatedKeys(obj) ==
    [k \in {Keys[i] : i \in 1..Len(Keys)} |->
        IF k = "updatedAt" THEN Undefined
        ELSE IF \E i \in 1..Len(obj) : obj[i][1] = k
        THEN obj[CHOOSE i \in 1..Len(obj) : obj[i][1] = k][2]
        ELSE Undefined]

\* property read on a parsed object
Field(obj, k) ==
    IF \E i \in 1..Len(obj) : obj[i][1] = k
    THEN obj[CHOOSE i \in 1..Len(obj) : obj[i][1] = k][2]
    ELSE Undefined

ParseObject(obj) == [k \in {Keys[i] : i \in 1..Len(Keys)} |-> Field(obj, k)]

\* JSON.parse of a stored document
Parse(objs) == [i \in 1..Len(objs) |-> ParseObject(objs[i])]

\* fs.writeFile(DATA_FILE, JSON.stringify(todos, null, 2))
WriteTodos(todos) == [kind |-> "json", objs |-> Stringify(todos)]

\* data.json does not exist: fs.readFile rejects with ENOENT
Absent == [kind |-> "absent", objs |-> <<>>]

\* data.json cannot be read: fs.readFile rejects with EACCES
Unreadable == [kind |-> "unreadable", objs |-> <<>>]

\* data.json holds text that JSON.parse rejects
Malformed == [kind |-> "malformed", objs |-> <<>>]

\* data.json just opened by fs.writeFile (flag "w"): zero bytes
Truncated == [kind |-> "empty", objs |-> <<>>]

\* readTodos: the parsed document, or [] when reading or parsing throws
ReadTodos(f) == IF f.kind = "json" THEN Parse(f.objs) ELSE <<>>

\* todos.findIndex((todo) => todo.id === id), 0 for -1
FindIndex(todos, id) ==
    IF \E i \in 1..Len(todos) : todos[i].id = id
    THEN CHOOSE i \in 1..Len(todos) :
            /\ todos[i].id = id
            /\ \A j \in 1..(i - 1) : todos[j].id # id
    ELSE 0

\* todos.splice(i) in place of todos.splice(i, 1): everything from i on goes
SpliceRest(todos, i) == SubSeq(todos, 1, i - 1)

\* todos.splice(i, 1) leaves todos without its i-th element
Splice(todos, i) == SubSeq(todos, 1, i - 1) \o SubSeq(todos, i + 1, Len(todos))

(***************************************************************************)
(* Responses.  Every response is a status and a JSON body; items holds the *)
(* item or items of the body.                                              *)
(***************************************************************************)
NoResp == [status |-> 0, shape |-> "none", error |-> "", message |-> "", items |-> <<>>]

\* res.status(code).json({ error: msg })
ErrorResp(code, msg) == [NoResp EXCEPT !.status = code, !.shape = "error", !.error = msg]

\* res.status(code).json(todo)
ItemResp(code, todo) == [NoResp EXCEPT !.status = code, !.shape = "item", !.items = <<todo>>]

\* res.json(todos)
ListResp(todos) == [NoResp EXCEPT !.status = 200, !.shape = "list", !.items = todos]

\* res.json({ message: "Todo deleted successfully", todo: deletedTodo })
DeletedResp(todo) ==
    [NoResp EXCEPT !.status = 200, !.shape = "deleted",
                   !.message = "Todo deleted successfully", !.items = <<todo>>]

\* res.json({ status: "OK", message: "Todo API is running" })
HealthResp ==
    [NoResp EXCEPT !.status = 200, !.shape = "health", !.message = "Todo API is running"]

(***************************************************************************)
(* State.                                                                  *)
(*   file   data.json                                                      *)
(*   clock  the millisecond Date.now() and new Date() return               *)
(*   req    the requests being handled: position in the route, path and    *)
(*          body parameters, the route's local todos and todoIndex, the    *)
(*          response sent.  Recorded with them: n, the request's number;   *)
(*          before, the document when the request arrived; snap, the       *)
(*          collection its readTodos() returned; raced, the number of a    *)
(*          request that wrote between this one's read and its write;      *)
(*          prior, the request answered just before it on the same         *)
(*          connection; io, how far the request's writeFile got ("open":   *)
(*          file opened and truncated, "failed": it rejected); over, the   *)
(*          document that writeFile found.  A connection whose request has *)
(*          been answered keeps the answer until its next request.         *)
(*   nreq   requests sent so far                                           *)
(*   client the page of frontend/script.js: its todos and isLoading; the    *)
(*          call awaiting its response on each connection; ticket, the     *)
(*          value of nreq when the last user call was sent; outcome, how   *)
(*          the last call that ended did end                               *)
(***************************************************************************)
VARIABLES file, clock, req, nreq, client

vars == <<file, clock, req, nreq, client>>

Slots == 1..MaxInFlight

IdleReq ==
    [pc |-> "idle", kind |-> "none", id |-> <<>>, text |-> Undefined,
     completed |-> Undefined, todos |-> <<>>, todoIndex |-> 0, resp |-> NoResp,
     n |-> 0, before |-> WriteTodos(<<>>), snap |-> <<>>, raced |-> 0, prior |-> <<>>,
     io |-> "", over |-> WriteTodos(<<>>)]

\* path parameters a client sends: an id it has seen, or one no item has
Nonexistent == <<"n", "o">>

IdInputs(r) ==
    {ReadTodos(file)[i].id.v : i \in 1..Len(ReadTodos(file))}
        \cup {req[r].resp.items[i].id.v : i \in 1..Len(req[r].resp.items)}
        \cup {Nonexistent}

\* NewTodo with text: text instead of text: text.trim()
NewTodoUntrimmed(text, now, rnd) ==
    [id |-> Str(GenerateId(now, rnd)), text |-> text, completed |-> False,
     createdAt |-> Str(ToISOString(now)), updatedAt |-> Undefined]

\* the object POST /api/todos builds
NewTodo(text, now, rnd) ==
    [id |-> Str(GenerateId(now, rnd)), text |-> Str(Trim(text.v)), completed |-> False,
     createdAt |-> Str(ToISOString(now)), updatedAt |-> Undefined]

\* the i-th item created before the behaviour starts
SeedChar == <<"p", "q", "r", "s", "t">>

SeedText == <<Str(<<"a">>), Str(<<"a", "a">>), Str(<<"a">>), Str(<<"a", "a">>), Str(<<"a">>)>>

SeedTodos(k) == [i \in 1..k |-> NewTodo(SeedText[i], 0, <<SeedChar[i]>>)]

\* no call of the page awaits a response
NoCall == [kind |-> "none", id |-> <<>>, text |-> Undefined, completed |-> Undefined]

\* let todos = []; let isLoading = false
ClientInit ==
    [todos |-> <<>>, isLoading |-> FALSE, pending |-> [r \in Slots |-> NoCall],
     ticket |-> 0, outcome |-> ""]

Init ==
    /\ \E k \in 0..MaxSeed : file = WriteTodos(SeedTodos(k))
    /\ clock = 0
    /\ req = [r \in Slots |-> IdleReq]
    /\ nreq = 0
    /\ client = ClientInit

\* a request reaches its route
Arrive(r, kind, id, text, completed) ==
    [IdleReq EXCEPT !.pc = "read", !.kind = kind, !.id = id, !.text = text,
                    !.completed = completed, !.n = nreq + 1,
                    !.before = file,
                    !.prior = IF req[r].pc = "done" THEN <<req[r]>> ELSE <<>>]

\* connection r can carry a new request
Free(r) == req[r].pc \in {"idle", "done"}

Respond(q, resp) == [q EXCEPT !.pc = "done", !.resp = resp]

\* the requests that read before the write of request r and have yet to write
Raced(r, q) ==
    [s \in Slots |->
        IF s = r THEN q
        ELSE IF req[s].pc = "write" THEN [req[s] EXCEPT !.raced = req[r].n]
        ELSE req[s]]

\* time passes
Tick ==
    /\ clock < MaxClock
    /\ clock' = clock + 1
    /\ UNCHANGED <<file, req, nreq, client>>

\* GetHealth answering from the state of data.json
GetHealthChecked(r) ==
    /\ Free(r)
    /\ req' = [req EXCEPT ![r] =
            Respond(Arrive(r, "health", <<>>, Undefined, Undefined),
                    IF file.kind = "json" THEN HealthResp
                    ELSE ErrorResp(500, "Todo API is not running"))]
    /\ nreq' = nreq + 1
    /\ UNCHANGED <<file, clock, client>>

\* GET /api/health
GetHealth(r) ==
    /\ Free(r)
    /\ req' = [req EXCEPT ![r] = Respond(Arrive(r, "health", <<>>, Undefined, Undefined), HealthResp)]
    /\ nreq' = nreq + 1
    /\ UNCHANGED <<file, clock, client>>

\* GET /api/todos, up to await readTodos()
GetTodos(r) ==
    /\ Free(r)
    /\ req' = [req EXCEPT ![r] = Arrive(r, "list", <<>>, Undefined, Undefined)]
    /\ nreq' = nreq + 1
    /\ UNCHANGED <<file, clock, client>>

\* GetTodosRead answering from a copy taken when the request arrived
GetTodosReadCached(r) ==
    /\ req[r].pc = "read" /\ req[r].kind = "list"
    /\ LET todos == ReadTodos(req[r].before)
       IN  req' = [req EXCEPT ![r] =
                Respond([req[r] EXCEPT !.todos = todos, !.snap = todos], ListResp(todos))]
    /\ UNCHANGED <<file, clock, nreq, client>>

\* GetTodosRead with a readTodos that rethrows: the route's catch answers 500
GetTodosReadThrows(r) ==
    /\ req[r].pc = "read" /\ req[r].kind = "list"
    /\ LET todos == ReadTodos(file)
       IN  req' = [req EXCEPT ![r] =
                Respond([req[r] EXCEPT !.todos = todos, !.snap = todos],
                        IF file.kind = "json" THEN ListResp(todos)
                        ELSE ErrorResp(500, "Failed to fetch todos"))]
    /\ UNCHANGED <<file, clock, nreq, client>>

\* GET /api/todos, after readTodos()
GetTodosRead(r) ==
    /\ req[r].pc = "read" /\ req[r].kind = "list"
    /\ LET todos == ReadTodos(file)
       IN  req' = [req EXCEPT ![r] =
                Respond([req[r] EXCEPT !.todos = todos, !.snap = todos], ListResp(todos))]
    /\ UNCHANGED <<file, clock, nreq, client>>

\* PostTodos with if (!text) in place of if (!text || text.trim() === "")
PostTodosNoTrim(r, text) ==
    /\ Free(r)
    /\ LET q == Arrive(r, "create", <<>>, text, Undefined)
       IN  req' = [req EXCEPT ![r] =
                IF Falsy(text) THEN Respond(q, ErrorResp(400, "Todo text is required"))
                ELSE IF text.t # "string"
                THEN Respond(q, ErrorResp(500, "Failed to create todo"))
                ELSE q]
    /\ nreq' = nreq + 1
    /\ UNCHANGED <<file, clock, client>>

\* POST /api/todos, up to await readTodos(): validation of text
PostTodos(r, text) ==
    /\ Free(r)
    /\ LET q == Arrive(r, "create", <<>>, text, Undefined)
       IN  req' = [req EXCEPT ![r] =
                IF Falsy(text) THEN Respond(q, ErrorResp(400, "Todo text is required"))
                ELSE IF text.t # "string"   \* text.trim is not a function
                THEN Respond(q, ErrorResp(500, "Failed to create todo"))
                ELSE IF Trim(text.v) = <<>>
                THEN Respond(q, ErrorResp(400, "Todo text is required"))
                ELSE q]
    /\ nreq' = nreq + 1
    /\ UNCHANGED <<file, clock, client>>

\* PostTodosRead with todos.unshift(newTodo) in place of todos.push(newTodo)
PostTodosReadUnshift(r, rnd) ==
    /\ req[r].pc = "read" /\ req[r].kind = "create"
    /\ LET todos == ReadTodos(file)
       IN  req' = [req EXCEPT ![r] =
                [req[r] EXCEPT !.pc = "write", !.snap = todos,
                               !.todos = <<NewTodo(req[r].text, clock, rnd)>> \o todos]]
    /\ UNCHANGED <<file, clock, nreq, client>>

\* POST /api/todos, after readTodos() up to await writeTodos(todos)
PostTodosRead(r, rnd) ==
    /\ req[r].pc = "read" /\ req[r].kind = "create"
    /\ LET todos == ReadTodos(file)
       IN  req' = [req EXCEPT ![r] =
                [req[r] EXCEPT !.pc = "write", !.snap = todos,
                               !.todos = Append(todos, NewTodo(req[r].text, clock, rnd))]]
    /\ UNCHANGED <<file, clock, nreq, client>>

\* PostTodosWrite with a second await writeTodos(todos) before the response
PostTodosWriteTwice(r) ==
    /\ req[r].pc = "write" /\ req[r].kind = "create"
    /\ file' = WriteTodos(req[r].todos)
    /\ req' = Raced(r, IF req[r].io = ""
                       THEN [req[r] EXCEPT !.io = "again"]
                       ELSE Respond(req[r], ItemResp(201, req[r].todos[Len(req[r].todos)])))
    /\ UNCHANGED <<clock, nreq, client>>

\* PostTodosWrite appending to the document as it is now, not as it was read
PostTodosWriteMerged(r) ==
    /\ req[r].pc = "write" /\ req[r].kind = "create"
    /\ file' = WriteTodos(Append(ReadTodos(file), req[r].todos[Len(req[r].todos)]))
    /\ req' = Raced(r, Respond(req[r], ItemResp(201, req[r].todos[Len(req[r].todos)])))
    /\ UNCHANGED <<clock, nreq, client>>

\* POST /api/todos, the write and the response after it
PostTodosWrite(r) ==
    /\ req[r].pc = "write" /\ req[r].kind = "create"
    /\ file' = WriteTodos(req[r].todos)
    /\ req' = Raced(r, Respond(req[r], ItemResp(201, req[r].todos[Len(req[r].todos)])))
    /\ UNCHANGED <<clock, nreq, client>>

\* UpdateTodo setting updatedAt only when the body carries text or completed
UpdateTodoStampIfChanged(todo, text, completed, now) ==
    [todo EXCEPT !.text = IF text # Undefined THEN Str(Trim(text.v)) ELSE @,
                 !.completed = IF completed # Undefined THEN completed ELSE @,
                 !.updatedAt = IF text # Undefined \/ completed # Undefined
                               THEN Str(ToISOString(now)) ELSE @]

\* UpdateTodo setting createdAt as well as updatedAt
UpdateTodoRecreated(todo, text, completed, now) ==
    [todo EXCEPT !.text = IF text # Undefined THEN Str(Trim(text.v)) ELSE @,
                 !.completed = IF completed # Undefined THEN completed ELSE @,
                 !.createdAt = Str(ToISOString(now)),
                 !.updatedAt = Str(ToISOString(now))]

\* UpdateTodo with todos[todoIndex].text = text in place of text.trim()
UpdateTodoUntrimmed(todo, text, completed, now) ==
    [todo EXCEPT !.text = IF text # Undefined THEN text ELSE @,
                 !.completed = IF completed # Undefined THEN completed ELSE @,
                 !.updatedAt = Str(ToISOString(now))]

\* UpdateTodo without todos[todoIndex].updatedAt = new Date().toISOString()
UpdateTodoNoStamp(todo, text, completed, now) ==
    [todo EXCEPT !.text = IF text # Undefined THEN Str(Trim(text.v)) ELSE @,
                 !.completed = IF completed # Undefined THEN completed ELSE @]

\* the item PUT /api/todos/:id leaves at todos[todoIndex]
UpdateTodo(todo, text, completed, now) ==
    [todo EXCEPT !.text = IF text # Undefined THEN Str(Trim(text.v)) ELSE @,
                 !.completed = IF completed # Undefined THEN completed ELSE @,
                 !.updatedAt = Str(ToISOString(now))]

\* PUT /api/todos/:id, up to await readTodos()
PutTodos(r, id, text, completed) ==
    /\ Free(r)
    /\ req' = [req EXCEPT ![r] = Arrive(r, "update", id, text, completed)]
    /\ nreq' = nreq + 1
    /\ UNCHANGED <<file, clock, client>>

\* PutTodosRead applying the body to todos[0] in place of todos[todoIndex]
PutTodosReadFirst(r) ==
    /\ req[r].pc = "read" /\ req[r].kind = "update"
    /\ LET todos == ReadTodos(file)
           i     == FindIndex(todos, Str(req[r].id))
           text  == req[r].text
           q     == [req[r] EXCEPT !.snap = todos, !.todos = todos, !.todoIndex = i]
       IN  req' = [req EXCEPT ![r] =
                IF i = 0 THEN Respond(q, ErrorResp(404, "Todo not found"))
                ELSE IF text # Undefined /\ text.t # "string"
                THEN Respond(q, ErrorResp(500, "Failed to update todo"))
                ELSE IF text # Undefined /\ Trim(text.v) = <<>>
                THEN Respond(q, ErrorResp(400, "Todo text cannot be empty"))
                ELSE [q EXCEPT !.pc = "write", !.todoIndex = 1,
                               !.todos[1] = UpdateTodo(todos[1], text, req[r].completed, clock)]]
    /\ UNCHANGED <<file, clock, nreq, client>>

\* PutTodosRead validating text before looking the id up
PutTodosReadValidateFirst(r) ==
    /\ req[r].pc = "read" /\ req[r].kind = "update"
    /\ LET todos == ReadTodos(file)
           i     == FindIndex(todos, Str(req[r].id))
           text  == req[r].text
           q     == [req[r] EXCEPT !.snap = todos, !.todos = todos, !.todoIndex = i]
       IN  req' = [req EXCEPT ![r] =
                IF text # Undefined /\ text.t # "string"
                THEN Respond(q, ErrorResp(500, "Failed to update todo"))
                ELSE IF text # Undefined /\ Trim(text.v) = <<>>
                THEN Respond(q, ErrorResp(400, "Todo text cannot be empty"))
                ELSE IF i = 0 THEN Respond(q, ErrorResp(404, "Todo not found"))
                ELSE [q EXCEPT !.pc = "write",
                               !.todos[i] = UpdateTodo(todos[i], text, req[r].completed, clock)]]
    /\ UNCHANGED <<file, clock, nreq, client>>

\* PutTodosRead with if (text === "") in place of if (text.trim() === "")
PutTodosReadNoTrim(r) ==
    /\ req[r].pc = "read" /\ req[r].kind = "update"
    /\ LET todos == ReadTodos(file)
           i     == FindIndex(todos, Str(req[r].id))
           text  == req[r].text
           q     == [req[r] EXCEPT !.snap = todos, !.todos = todos, !.todoIndex = i]
       IN  req' = [req EXCEPT ![r] =
                IF i = 0 THEN Respond(q, ErrorResp(404, "Todo not found"))
                ELSE IF text # Undefined /\ text.t # "string"
                THEN Respond(q, ErrorResp(500, "Failed to update todo"))
                ELSE IF text # Undefined /\ text.v = <<>>
                THEN Respond(q, ErrorResp(400, "Todo text cannot be empty"))
                ELSE [q EXCEPT !.pc = "write",
                               !.todos[i] = UpdateTodo(todos[i], text, req[r].completed, clock)]]
    /\ UNCHANGED <<file, clock, nreq, client>>

\* PUT /api/todos/:id, after readTodos() up to await writeTodos(todos)
PutTodosRead(r) ==
    /\ req[r].pc = "read" /\ req[r].kind = "update"
    /\ LET todos == ReadTodos(file)
           i     == FindIndex(todos, Str(req[r].id))
           text  == req[r].text
           q     == [req[r] EXCEPT !.snap = todos, !.todos = todos, !.todoIndex = i]
       IN  req' = [req EXCEPT ![r] =
                IF i = 0 THEN Respond(q, ErrorResp(404, "Todo not found"))
                ELSE IF text # Undefined /\ text.t # "string"   \* text.trim throws
                THEN Respond(q, ErrorResp(500, "Failed to update todo"))
                ELSE IF text # Undefined /\ Trim(text.v) = <<>>
                THEN Respond(q, ErrorResp(400, "Todo text cannot be empty"))
                ELSE [q EXCEPT !.pc = "write",
                               !.todos[i] = UpdateTodo(todos[i], text, req[r].completed, clock)]]
    /\ UNCHANGED <<file, clock, nreq, client>>

\* PutTodosWrite without await writeTodos(todos)
PutTodosWriteNoPersist(r) ==
    /\ req[r].pc = "write" /\ req[r].kind = "update"
    /\ req' = [req EXCEPT ![r] = Respond(req[r], ItemResp(200, req[r].todos[req[r].todoIndex]))]
    /\ UNCHANGED <<file, clock, nreq, client>>

\* PUT /api/todos/:id, the write and the response after it
PutTodosWrite(r) ==
    /\ req[r].pc = "write" /\ req[r].kind = "update"
    /\ file' = WriteTodos(req[r].todos)
    /\ req' = Raced(r, Respond(req[r], ItemResp(200, req[r].todos[req[r].todoIndex])))
    /\ UNCHANGED <<clock, nreq, client>>

\* DELETE /api/todos/:id, up to await readTodos()
DeleteTodos(r, id) ==
    /\ Free(r)
    /\ req' = [req EXCEPT ![r] = Arrive(r, "delete", id, Undefined, Undefined)]
    /\ nreq' = nreq + 1
    /\ UNCHANGED <<file, clock, client>>

\* DeleteTodosRead that throws outside of its try when the id is unknown: the
\* request gets no response
DeleteTodosReadNoResponse(r) ==
    /\ req[r].pc = "read" /\ req[r].kind = "delete"
    /\ LET todos == ReadTodos(file)
           i     == FindIndex(todos, Str(req[r].id))
           q     == [req[r] EXCEPT !.snap = todos, !.todos = todos, !.todoIndex = i]
       IN  req' = [req EXCEPT ![r] =
                IF i = 0 THEN [q EXCEPT !.pc = "lost"]
                ELSE [q EXCEPT !.pc = "write", !.todos = Splice(todos, i)]]
    /\ UNCHANGED <<file, clock, nreq, client>>

\* DeleteTodosRead without the todoIndex === -1 check: splice(-1, 1) takes the last item
DeleteTodosReadNoCheck(r) ==
    /\ req[r].pc = "read" /\ req[r].kind = "delete"
    /\ LET todos == ReadTodos(file)
           f     == FindIndex(todos, Str(req[r].id))
           i     == IF f = 0 THEN Len(todos) ELSE f
           q     == [req[r] EXCEPT !.snap = todos, !.todos = todos, !.todoIndex = i]
       IN  req' = [req EXCEPT ![r] =
                IF i = 0 THEN Respond(q, ErrorResp(404, "Todo not found"))
                ELSE [q EXCEPT !.pc = "write", !.todos = Splice(todos, i)]]
    /\ UNCHANGED <<file, clock, nreq, client>>

\* DELETE /api/todos/:id, after readTodos() up to await writeTodos(todos)
DeleteTodosRead(r) ==
    /\ req[r].pc = "read" /\ req[r].kind = "delete"
    /\ LET todos == ReadTodos(file)
           i     == FindIndex(todos, Str(req[r].id))
           q     == [req[r] EXCEPT !.snap = todos, !.todos = todos, !.todoIndex = i]
       IN  req' = [req EXCEPT ![r] =
                IF i = 0 THEN Respond(q, ErrorResp(404, "Todo not found"))
                ELSE [q EXCEPT !.pc = "write", !.todos = Splice(todos, i)]]
    /\ UNCHANGED <<file, clock, nreq, client>>

\* DELETE /api/todos/:id, the write and the response after it
DeleteTodosWrite(r) ==
    /\ req[r].pc = "write" /\ req[r].kind = "delete"
    /\ file' = WriteTodos(req[r].todos)
    /\ req' = Raced(r, Respond(req[r], DeletedResp(req[r].snap[req[r].todoIndex])))
    /\ UNCHANGED <<clock, nreq, client>>

\* fs.writeFile opens data.json with flag "w": the file is empty until the data
\* is written by the route's write step
WriteOpen(r) ==
    /\ req[r].pc = "write" /\ req[r].io = ""
    /\ file' = Truncated
    /\ req' = [req EXCEPT ![r] = [req[r] EXCEPT !.io = "open", !.over = file]]
    /\ UNCHANGED <<clock, nreq, client>>

\* what a writeFile that rejects leaves: the file as it was (open failed), or
\* empty (opened, then the write failed)
FailedWrites == {file, Truncated}

\* PostTodosWriteFails with a writeTodos that logs the error and returns
PostTodosWriteFailsSwallowed(r) ==
    /\ req[r].pc = "write" /\ req[r].kind = "create"
    /\ \E f \in FailedWrites : file' = f
    /\ req' = [req EXCEPT ![r] =
            Respond([req[r] EXCEPT !.io = "failed", !.over = file],
                    ItemResp(201, req[r].todos[Len(req[r].todos)]))]
    /\ UNCHANGED <<clock, nreq, client>>

\* POST /api/todos, writeTodos throws: the route's catch
PostTodosWriteFails(r) ==
    /\ req[r].pc = "write" /\ req[r].kind = "create"
    /\ \E f \in FailedWrites : file' = f
    /\ req' = [req EXCEPT ![r] =
            Respond([req[r] EXCEPT !.io = "failed", !.over = file],
                    ErrorResp(500, "Failed to create todo"))]
    /\ UNCHANGED <<clock, nreq, client>>

\* PUT /api/todos/:id, writeTodos throws: the route's catch
PutTodosWriteFails(r) ==
    /\ req[r].pc = "write" /\ req[r].kind = "update"
    /\ \E f \in FailedWrites : file' = f
    /\ req' = [req EXCEPT ![r] =
            Respond([req[r] EXCEPT !.io = "failed", !.over = file],
                    ErrorResp(500, "Failed to update todo"))]
    /\ UNCHANGED <<clock, nreq, client>>

\* DELETE /api/todos/:id, writeTodos throws: the route's catch
DeleteTodosWriteFails(r) ==
    /\ req[r].pc = "write" /\ req[r].kind = "delete"
    /\ \E f \in FailedWrites : file' = f
    /\ req' = [req EXCEPT ![r] =
            Respond([req[r] EXCEPT !.io = "failed", !.over = file],
                    ErrorResp(500, "Failed to delete todo"))]
    /\ UNCHANGED <<clock, nreq, client>>

\* a request arrives, its body drawn from texts and completeds
Request(r, texts, completeds) ==
    /\ nreq < MaxRequests
    /\ \/ GetHealth(r)
       \/ GetTodos(r)
       \/ \E text \in texts : PostTodos(r, text)
       \/ \E id \in IdInputs(r), text \in texts, completed \in completeds :
               PutTodos(r, id, text, completed)
       \/ \E id \in IdInputs(r) : DeleteTodos(r, id)

\* a request being handled takes its next step
Step(r) ==
    \/ GetTodosRead(r)
    \/ \E rnd \in RandStrs : PostTodosRead(r, rnd)
    \/ PostTodosWrite(r)
    \/ PutTodosRead(r)
    \/ PutTodosWrite(r)
    \/ DeleteTodosRead(r)
    \/ DeleteTodosWrite(r)

(***************************************************************************)
(* SeqSpec: requests run one after another; one is sent only when the      *)
(* response to the one before has been received.                           *)
(***************************************************************************)
Quiet == \A r \in Slots : req[r].pc \in {"idle", "done"}

SeqNext == Tick \/ (Quiet /\ Request(1, TextInputs, CompletedInputs)) \/ Step(1)

SeqSpec == Init /\ [][SeqNext]_vars

(***************************************************************************)
(* Spec: requests overlap; each runs its own read-modify-write cycle.      *)
(***************************************************************************)
RaceTexts == {Undefined, Str(<<" ">>), Str(<<"a">>)}

Next == Tick \/ \E r \in Slots : Request(r, RaceTexts, CompletedInputs) \/ Step(r)

Spec == Init /\ [][Next]_vars

(***************************************************************************)
(* ScenarioSpec: one client, starting from an empty collection, creates an *)
(* item, completes it, lists, deletes it and lists again.                  *)
(***************************************************************************)
ScenarioInit == Init /\ file = WriteTodos(<<>>)

\* the id the client has from its last response
ScenarioId ==
    IF req[1].resp.items # <<>> THEN req[1].resp.items[1].id.v ELSE Nonexistent

ScenarioRequest ==
    \/ nreq = 0 /\ \E s \in {x \in Strings : Trim(x) # <<>>} : PostTodos(1, Str(s))
    \/ nreq = 1 /\ PutTodos(1, ScenarioId, Undefined, True)
    \/ nreq \in {2, 4} /\ GetTodos(1)
    \/ nreq = 3 /\ DeleteTodos(1, ScenarioId)

ScenarioNext == Tick \/ (Quiet /\ ScenarioRequest) \/ Step(1)

ScenarioSpec == ScenarioInit /\ [][ScenarioNext]_vars

(***************************************************************************)
(* TornSpec: connection 1 sends any request, connection 2 lists; the       *)
(* writeFile of a mutating request may be seen between its opening of the  *)
(* file and its writing of the data.                                       *)
(***************************************************************************)
TornTexts == {Undefined, Str(<<"a">>)}

TornCompleteds == {Undefined, True}

TornNext ==
    \/ Tick
    \/ Request(1, TornTexts, TornCompleteds)
    \/ (nreq < MaxRequests /\ GetTodos(2))
    \/ \E r \in Slots : Step(r)
    \/ WriteOpen(1)

TornSpec == Init /\ [][TornNext]_vars

(***************************************************************************)
(* FaultSpec: requests run one after another against a data.json that may  *)
(* be missing, unreadable or malformed, and a writeFile may reject.        *)
(***************************************************************************)
FaultInit ==
    /\ \/ file \in {Absent, Unreadable, Malformed, Truncated}
       \/ \E k \in 0..MaxSeed : file = WriteTodos(SeedTodos(k))
    /\ clock = 0
    /\ req = [r \in Slots |-> IdleReq]
    /\ nreq = 0
    /\ client = ClientInit

FaultTexts == {Undefined, Str(<<" ">>), Str(<<" ", "a">>)}

FaultCompleteds == {Undefined, True}

\* the writeTodos of the request being handled throws
WriteFails(r) ==
    \/ PostTodosWriteFails(r)
    \/ PutTodosWriteFails(r)
    \/ DeleteTodosWriteFails(r)

FaultNext ==
    \/ Tick
    \/ (Quiet /\ Request(1, FaultTexts, FaultCompleteds))
    \/ Step(1)
    \/ WriteFails(1)

FaultSpec == FaultInit /\ [][FaultNext]_vars

\* LiveSpec: FaultSpec in which a storage read or write that has been started
\* completes or fails, and the route goes on from there
LiveSpec == FaultSpec /\ WF_vars(Step(1) \/ WriteFails(1))

(***************************************************************************)
(* StaleSpec: connection 1 deletes an item and lists when the delete has   *)
(* been answered; connection 2 sends one create or update at any moment    *)
(* after the delete was sent.                                              *)
(***************************************************************************)
StaleRequest ==
    \/ nreq = 0 /\ \E id \in IdInputs(1) : DeleteTodos(1, id)
    \/ /\ nreq = 1
       /\ \/ \E text \in RaceTexts : PostTodos(2, text)
          \/ \E id \in IdInputs(2), text \in RaceTexts, completed \in CompletedInputs :
                  PutTodos(2, id, text, completed)
    \/ nreq = 2 /\ req[1].kind = "delete" /\ req[1].pc = "done" /\ GetTodos(1)

StaleNext == Tick \/ StaleRequest \/ \E r \in Slots : Step(r)

StaleSpec == Init /\ [][StaleNext]_vars

(***************************************************************************)
(* RoundTripSpec: readTodos, writeTodos of what it returned, readTodos     *)
(* again and writeTodos again, on every document of StoredContents.        *)
(***************************************************************************)
\* items as POST builds them and as PUT leaves them
StoredItems ==
    LET created == {NewTodo(Str(s), 0, rnd) : s \in {x \in Strings : Trim(x) # <<>>},
                                                  rnd \in RandStrs}
    IN  created \cup
            {UpdateTodo(it, Undefined, c, 1) : it \in created, c \in CompletedInputs}

StoredContents ==
    {Absent, Unreadable, Malformed, Truncated}
        \cup {WriteTodos(todos) : todos \in UNION {[1..n -> StoredItems] : n \in 0..2}}

RoundTripInit ==
    /\ file \in StoredContents
    /\ clock = 0
    /\ req = [r \in Slots |-> IdleReq]
    /\ nreq = 0
    /\ client = ClientInit

\* const todos = await readTodos(): the first read, then the read after a write
RoundTripRead(r) ==
    /\ req[r].pc \in {"idle", "read2"}
    /\ req' = [req EXCEPT ![r] =
            IF req[r].pc = "idle"
            THEN [req[r] EXCEPT !.pc = "write1", !.kind = "roundtrip",
                                !.before = file, !.snap = ReadTodos(file)]
            ELSE [req[r] EXCEPT !.pc = "write2", !.todos = ReadTodos(file)]]
    /\ UNCHANGED <<file, clock, nreq, client>>

\* RoundTripWrite with fs.appendFile in place of fs.writeFile: text after the
\* end of a document makes it one JSON.parse rejects
RoundTripWriteAppend(r) ==
    /\ req[r].pc \in {"write1", "write2"}
    /\ file' = IF file \in {Absent, Truncated}
               THEN WriteTodos(IF req[r].pc = "write1" THEN req[r].snap ELSE req[r].todos)
               ELSE Malformed
    /\ req' = [req EXCEPT ![r] =
            [req[r] EXCEPT !.pc = IF req[r].pc = "write1" THEN "read2" ELSE "done",
                           !.over = file]]
    /\ UNCHANGED <<clock, nreq, client>>

\* await writeTodos(todos) of what the read before it returned
RoundTripWrite(r) ==
    /\ req[r].pc \in {"write1", "write2"}
    /\ file' = WriteTodos(IF req[r].pc = "write1" THEN req[r].snap ELSE req[r].todos)
    /\ req' = [req EXCEPT ![r] =
            [req[r] EXCEPT !.pc = IF req[r].pc = "write1" THEN "read2" ELSE "done",
                           !.over = file]]
    /\ UNCHANGED <<clock, nreq, client>>

RoundTripNext == RoundTripRead(1) \/ RoundTripWrite(1)

RoundTripSpec == RoundTripInit /\ [][RoundTripNext]_vars

(***************************************************************************)
(* The page (frontend/script.js).  Its polls use connection 1 and are not  *)
(* counted in nreq; its add, update and delete calls use connection 2, one *)
(* at a time.  A call is sent in one step, reaches its route in another,   *)
(* and its response is handled in a third: responses on the two            *)
(* connections are handled in either order.                                *)
(***************************************************************************)
PollSlot == 1

UserSlot == 2

\* response.ok
Ok(resp) == resp.status >= 200 /\ resp.status <= 299

\* the response to the pending call on connection r has come
Responded(r) ==
    /\ req[r].pc = "done"
    /\ r = UserSlot => req[r].n = client.ticket + 1

\* the call on connection r ends
Ended(r, todos, outcome) ==
    [client EXCEPT !.todos = todos, !.outcome = outcome, !.pending[r] = NoCall,
                   !.isLoading = IF r = PollSlot THEN FALSE ELSE @]

\* setInterval / initializeApp: loadTodos up to await apiRequest("/todos"); the
\* request reaches GET /api/todos
LoadTodos ==
    /\ ~client.isLoading
    /\ client.pending[PollSlot] = NoCall
    /\ Free(PollSlot)
    /\ client' = [client EXCEPT !.isLoading = TRUE, !.pending[PollSlot].kind = "load"]
    /\ req' = [req EXCEPT ![PollSlot] =
            [Arrive(PollSlot, "list", <<>>, Undefined, Undefined)
                EXCEPT !.n = 0, !.prior = <<>>]]
    /\ UNCHANGED <<file, clock, nreq>>

\* LoadTodosDone with todos = todos.concat(the items not yet in todos)
LoadTodosDoneMerging ==
    /\ client.pending[PollSlot].kind = "load"
    /\ Responded(PollSlot) /\ Ok(req[PollSlot].resp)
    /\ LET got == req[PollSlot].resp.items
           new == SelectSeq(got, LAMBDA t :
                      \A i \in 1..Len(client.todos) : client.todos[i].id # t.id)
       IN  client' = Ended(PollSlot, client.todos \o new, "ok")
    /\ UNCHANGED <<file, clock, req, nreq>>

\* loadTodos after await apiRequest("/todos"): todos = the list returned
LoadTodosDone ==
    /\ client.pending[PollSlot].kind = "load"
    /\ Responded(PollSlot) /\ Ok(req[PollSlot].resp)
    /\ client' = Ended(PollSlot, req[PollSlot].resp.items, "ok")
    /\ UNCHANGED <<file, clock, req, nreq>>

\* loadTodos, catch: fetch rejected or the response was not ok
LoadTodosFails ==
    /\ client.pending[PollSlot].kind = "load"
    /\ Responded(PollSlot)
    /\ client' = Ended(PollSlot, client.todos, "failed")
    /\ UNCHANGED <<file, clock, req, nreq>>

\* a user call is sent on the user connection
Call(kind, id, text, completed) ==
    /\ client.pending[UserSlot] = NoCall
    /\ nreq < MaxRequests
    /\ client' = [client EXCEPT
            !.pending[UserSlot] = [kind |-> kind, id |-> id, text |-> text,
                                   completed |-> completed],
            !.ticket = nreq]
    /\ UNCHANGED <<file, clock, req, nreq>>

\* handleAddTodo, addTodo up to await apiRequest: the trimmed input, if not empty
AddTodo(input) ==
    /\ Trim(input) # <<>>
    /\ Call("add", <<>>, Str(Trim(input)), Undefined)

\* handleToggleComplete, updateTodo(id, { completed }) up to await apiRequest
ToggleComplete(id, completed) ==
    /\ Str(id) \in {client.todos[i].id : i \in 1..Len(client.todos)}
    /\ Call("update", id, Undefined, completed)

\* handleSaveEdit, updateTodo(id, { text: newText }) up to await apiRequest
SaveEdit(id, input) ==
    /\ Str(id) \in {client.todos[i].id : i \in 1..Len(client.todos)}
    /\ Trim(input) # <<>>
    /\ Call("update", id, Str(Trim(input)), Undefined)

\* handleDeleteTodo, deleteTodo(id) up to await apiRequest
DeleteTodo(id) ==
    /\ Str(id) \in {client.todos[i].id : i \in 1..Len(client.todos)}
    /\ Call("delete", id, Undefined, Undefined)

\* the request of the pending user call reaches its route
CallArrives ==
    LET c == client.pending[UserSlot]
    IN  /\ c # NoCall
        /\ client.ticket = nreq
        /\ \/ c.kind = "add" /\ PostTodos(UserSlot, c.text)
           \/ c.kind = "update" /\ PutTodos(UserSlot, c.id, c.text, c.completed)
           \/ c.kind = "delete" /\ DeleteTodos(UserSlot, c.id)

\* addTodo after await apiRequest: todos.push(newTodo)
AddTodoDone ==
    /\ client.pending[UserSlot].kind = "add"
    /\ Responded(UserSlot) /\ Ok(req[UserSlot].resp)
    /\ client' = Ended(UserSlot, Append(client.todos, req[UserSlot].resp.items[1]), "ok")
    /\ UNCHANGED <<file, clock, req, nreq>>

\* updateTodo after await apiRequest: todos[index] = updatedTodo when index !== -1
UpdateTodoDone ==
    /\ client.pending[UserSlot].kind = "update"
    /\ Responded(UserSlot) /\ Ok(req[UserSlot].resp)
    /\ LET index == FindIndex(client.todos, Str(client.pending[UserSlot].id))
       IN  client' = Ended(UserSlot,
                IF index # 0
                THEN [client.todos EXCEPT ![index] = req[UserSlot].resp.items[1]]
                ELSE client.todos, "ok")
    /\ UNCHANGED <<file, clock, req, nreq>>

\* deleteTodo after await apiRequest: todos = todos.filter(todo => todo.id !== id)
DeleteTodoDone ==
    /\ client.pending[UserSlot].kind = "delete"
    /\ Responded(UserSlot) /\ Ok(req[UserSlot].resp)
    /\ client' = Ended(UserSlot,
            SelectSeq(client.todos, LAMBDA t : t.id # Str(client.pending[UserSlot].id)),
            "ok")
    /\ UNCHANGED <<file, clock, req, nreq>>

\* addTodo, catch: fetch rejected, at any moment, or the response was not ok
AddTodoFails ==
    /\ client.pending[UserSlot].kind = "add"
    /\ client' = Ended(UserSlot, client.todos, "failed")
    /\ UNCHANGED <<file, clock, req, nreq>>

\* updateTodo, catch
UpdateTodoFails ==
    /\ client.pending[UserSlot].kind = "update"
    /\ client' = Ended(UserSlot, client.todos, "failed")
    /\ UNCHANGED <<file, clock, req, nreq>>

\* DeleteTodoFails taking the item out of todos although the call failed
DeleteTodoFailsRemoves ==
    /\ client.pending[UserSlot].kind = "delete"
    /\ client' = Ended(UserSlot,
            SelectSeq(client.todos, LAMBDA t : t.id # Str(client.pending[UserSlot].id)),
            "failed")
    /\ UNCHANGED <<file, clock, req, nreq>>

\* deleteTodo, catch
DeleteTodoFails ==
    /\ client.pending[UserSlot].kind = "delete"
    /\ client' = Ended(UserSlot, client.todos, "failed")
    /\ UNCHANGED <<file, clock, req, nreq>>

(***************************************************************************)
(* ClientSpec: one page and the server.  LiveClientSpec: the timer keeps   *)
(* firing, GET /api/todos keeps being served, and polls keep completing.   *)
(***************************************************************************)
ClientInputs == {<<"a">>, <<" ">>}

ClientIds == {client.todos[i].id.v : i \in 1..Len(client.todos)}

ClientNext ==
    \/ LoadTodos
    \/ LoadTodosDone
    \/ LoadTodosFails
    \/ \E input \in ClientInputs : AddTodo(input)
    \/ \E id \in ClientIds : ToggleComplete(id, True)
    \/ \E id \in ClientIds, input \in ClientInputs : SaveEdit(id, input)
    \/ \E id \in ClientIds : DeleteTodo(id)
    \/ CallArrives
    \/ AddTodoDone
    \/ UpdateTodoDone
    \/ DeleteTodoDone
    \/ AddTodoFails
    \/ UpdateTodoFails
    \/ DeleteTodoFails
    \/ \E r \in {PollSlot, UserSlot} : Step(r)

ClientSpec == Init /\ [][ClientNext]_vars

LiveClientSpec ==
    /\ ClientSpec
    /\ WF_vars(LoadTodos)
    /\ WF_vars(GetTodosRead(PollSlot))
    /\ SF_vars(LoadTodosDone)

(***************************************************************************)
(* Vocabulary of the properties.                                           *)
(***************************************************************************)
\* request on connection r has kind k and has been answered
Answered(r, k) == req[r].pc = "done" /\ req[r].kind = k

Ids(todos) == {todos[i].id : i \in 1..Len(todos)}

\* s is empty or holds only whitespace
Blank(s) == \A i \in 1..Len(s) : s[i] = " "

\* t is s without its leading and trailing whitespace
IsTrimOf(t, s) ==
    /\ t = <<>> \/ (t[1] # " " /\ t[Len(t)] # " ")
    /\ \E i \in 0..Len(s) :
          /\ i + Len(t) <= Len(s)
          /\ \A k \in 1..Len(s) :
                IF k > i /\ k <= i + Len(t) THEN s[k] = t[k - i] ELSE s[k] = " "

\* the request, if any, answered just before q on q's connection
PriorIs(q, k, status) ==
    /\ q.prior # <<>>
    /\ q.prior[1].kind = k
    /\ q.prior[1].resp.status = status

(***************************************************************************)
(* C1: a create whose text is not blank is answered 201 with an item that  *)
(* has the trimmed text, completed=false, createdAt and no updatedAt; a    *)
(* list sent right after returns the prior collection, in its order,       *)
(* followed by that one new item.                                          *)
(***************************************************************************)
C1_CreateThenList ==
    \A r \in Slots :
        /\ (Answered(r, "create") /\ req[r].text.t = "string" /\ ~Blank(req[r].text.v)) =>
              /\ req[r].resp.status = 201
              /\ req[r].resp.shape = "item"
              /\ Len(req[r].resp.items) = 1
              /\ LET it == req[r].resp.items[1]
                 IN  /\ it.text.t = "string" /\ IsTrimOf(it.text.v, req[r].text.v)
                     /\ it.completed = False
                     /\ it.createdAt.t = "string" /\ it.createdAt.v # <<>>
                     /\ it.updatedAt = Undefined
                     /\ it.id.t = "string" /\ it.id.v # <<>>
        /\ (Answered(r, "list") /\ PriorIs(req[r], "create", 201)) =>
              LET p == req[r].prior[1]
              IN  /\ req[r].resp.status = 200
                  /\ req[r].resp.shape = "list"
                  /\ req[r].resp.items = ReadTodos(p.before) \o <<p.resp.items[1]>>

W_C1 ==
    \E r \in Slots :
        /\ Answered(r, "list") /\ PriorIs(req[r], "create", 201)
        /\ Len(ReadTodos(req[r].prior[1].before)) = 2
        /\ req[r].prior[1].text = Str(<<" ", "a">>)

(***************************************************************************)
(* C2: a create whose text is absent, empty or whitespace-only is answered *)
(* 400 with the one error body, and the stored document is the same after  *)
(* the request as before it.                                               *)
(***************************************************************************)
BlankText(text) == text = Undefined \/ (text.t = "string" /\ Blank(text.v))

C2_CreateBlankRejected ==
    \A r \in Slots :
        (Answered(r, "create") /\ BlankText(req[r].text)) =>
            /\ req[r].resp = ErrorResp(400, "Todo text is required")
            /\ file = req[r].before

W_C2 ==
    \E r \in Slots :
        /\ Answered(r, "create") /\ req[r].text = Str(<<" ", " ">>)
        /\ ReadTodos(file) # <<>>

(***************************************************************************)
(* C3: an update of a known id with a body of only completed=true is       *)
(* answered 200, sets the item's completed to true and its updatedAt, and  *)
(* leaves the item's text, id and createdAt as they were.                  *)
(***************************************************************************)
C3_CompleteOnly ==
    \A r \in Slots :
        LET q   == req[r]
            old == ReadTodos(q.before)
            new == ReadTodos(file)
            i   == FindIndex(old, Str(q.id))
        IN  (Answered(r, "update") /\ q.text = Undefined /\ q.completed = True /\ i # 0) =>
                /\ q.resp.status = 200
                /\ q.resp.shape = "item"
                /\ Len(new) = Len(old)
                /\ q.resp.items = <<new[i]>>
                /\ new[i].completed = True
                /\ new[i].updatedAt.t = "string" /\ new[i].updatedAt.v # <<>>
                /\ new[i].text = old[i].text
                /\ new[i].id = old[i].id
                /\ new[i].createdAt = old[i].createdAt

W_C3 ==
    \E r \in Slots :
        /\ Answered(r, "update") /\ req[r].text = Undefined /\ req[r].completed = True
        /\ FindIndex(ReadTodos(req[r].before), Str(req[r].id)) = 2
        /\ ReadTodos(req[r].before)[2].completed = False

(***************************************************************************)
(* C4: an update of a known id whose text is present and blank is answered *)
(* 400 and changes nothing in the stored document, whatever completed      *)
(* value the same body carries.                                            *)
(***************************************************************************)
C4_UpdateBlankRejected ==
    \A r \in Slots :
        LET q == req[r]
        IN  (/\ Answered(r, "update")
             /\ Str(q.id) \in Ids(ReadTodos(q.before))
             /\ q.text.t = "string" /\ Blank(q.text.v)) =>
                /\ q.resp = ErrorResp(400, "Todo text cannot be empty")
                /\ file = q.before

W_C4 ==
    \E r \in Slots :
        /\ Answered(r, "update")
        /\ Str(req[r].id) \in Ids(ReadTodos(req[r].before))
        /\ req[r].text = Str(<<" ">>) /\ req[r].completed = True

(***************************************************************************)
(* C5: an update or a delete of an id that no item has is answered 404     *)
(* "Todo not found" and leaves the stored document as it was, whatever the *)
(* collection and the body.                                                *)
(***************************************************************************)
C5_UnknownIdNotFound ==
    \A r \in Slots :
        LET q == req[r]
        IN  (/\ Answered(r, "update") \/ Answered(r, "delete")
             /\ Str(q.id) \notin Ids(ReadTodos(q.before))) =>
                /\ q.resp = ErrorResp(404, "Todo not found")
                /\ file = q.before

W_C5 ==
    \E r \in Slots :
        /\ Answered(r, "update") /\ req[r].id = Nonexistent
        /\ req[r].text = Str(<<" ">>) /\ req[r].completed = True
        /\ Len(ReadTodos(req[r].before)) = 2

(***************************************************************************)
(* C6: a delete of a known id is answered 200 with the confirmation        *)
(* message and the item as it was stored; the item is gone, the others are *)
(* unchanged and in their order, and the collection is shorter by one.     *)
(***************************************************************************)
C6_DeleteRemovesOne ==
    \A r \in Slots :
        LET q   == req[r]
            old == ReadTodos(q.before)
            new == ReadTodos(file)
            i   == FindIndex(old, Str(q.id))
        IN  (Answered(r, "delete") /\ i # 0) =>
                /\ q.resp.status = 200
                /\ q.resp.message = "Todo deleted successfully"
                /\ q.resp.items = <<old[i]>>
                /\ Len(new) = Len(old) - 1
                /\ \A j \in 1..Len(new) : new[j] = IF j < i THEN old[j] ELSE old[j + 1]

W_C6 ==
    \E r \in Slots :
        /\ Answered(r, "delete")
        /\ Len(ReadTodos(req[r].before)) = 3
        /\ FindIndex(ReadTodos(req[r].before), Str(req[r].id)) = 2

(***************************************************************************)
(* C7: a list is answered 200 with the collection as it is stored when the *)
(* route reads it, in storage order, also after the document has changed   *)
(* since the request arrived; no step of a list changes the document.      *)
(***************************************************************************)
C7_ListReadsStorage ==
    [][\A r \in Slots :
          (req'[r].kind = "list" /\ req'[r] # req[r]) =>
              /\ file' = file
              /\ req'[r].pc = "done" => req'[r].resp = ListResp(ReadTodos(file))]_vars

W_C7 ==
    \E r \in Slots :
        /\ Answered(r, "list")
        /\ req[r].resp.items # ReadTodos(req[r].before)
        /\ req[r].resp.items # <<>>

(***************************************************************************)
(* C8: from an empty collection, with no other request, create / update    *)
(* that id with completed=true / list / delete that id / list are answered *)
(* in order: 201 with completed=false; 200 with completed=true and         *)
(* updatedAt; a list of the one updated item; 200 with the deleted item;   *)
(* an empty list.                                                          *)
(***************************************************************************)
RECURSIVE Chain(_)
Chain(q) == IF q.prior = <<>> THEN <<q>> ELSE Append(Chain(q.prior[1]), q)

C8_Scenario ==
    LET tr      == Chain(req[1])
        Done(k) == Len(tr) >= k /\ tr[k].pc = "done"
    IN  /\ Done(1) =>
              /\ tr[1].resp.status = 201
              /\ tr[1].resp.items[1].completed = False
        /\ Done(2) =>
              /\ tr[2].resp.status = 200
              /\ tr[2].resp.items[1].id = tr[1].resp.items[1].id
              /\ tr[2].resp.items[1].completed = True
              /\ tr[2].resp.items[1].updatedAt # Undefined
        /\ Done(3) =>
              /\ tr[3].resp.status = 200
              /\ tr[3].resp.items = tr[2].resp.items
        /\ Done(4) =>
              /\ tr[4].resp.status = 200
              /\ tr[4].resp.shape = "deleted"
              /\ tr[4].resp.items = tr[2].resp.items
        /\ Done(5) =>
              /\ tr[5].resp.status = 200
              /\ tr[5].resp.shape = "list"
              /\ tr[5].resp.items = <<>>

W_C8 == nreq = 5 /\ Answered(1, "list") /\ Len(Chain(req[1])) = 5

(***************************************************************************)
(* C9: in every state reached from an empty collection by creates, updates *)
(* and deletes, no two stored items have the same id, and a created item's *)
(* id differs from every id of the collection it is appended to.           *)
(***************************************************************************)
\* the behaviour started from the empty document
FromEmpty(r) ==
    IF req[r].n = 0 THEN nreq = 0 /\ ReadTodos(file) = <<>>
    ELSE Chain(req[r])[1].n = 1 /\ ReadTodos(Chain(req[r])[1].before) = <<>>

NoDuplicateId(todos) ==
    \A i \in 1..Len(todos) : \A j \in 1..Len(todos) : todos[i].id = todos[j].id => i = j

C9_UniqueIds ==
    FromEmpty(1) =>
        /\ NoDuplicateId(ReadTodos(file))
        /\ (Answered(1, "create") /\ req[1].resp.status = 201) =>
                req[1].resp.items[1].id \notin Ids(req[1].snap)

(***************************************************************************)
(* C10: when two mutating requests both read the collection before either  *)
(* writes, the document after both writes is the one the later writer      *)
(* wrote, and both requests were answered with success.                    *)
(***************************************************************************)
Success(q) == q.resp.status \in {200, 201}

\* b writes now; a wrote after b read, and a's answer is still on its connection
RaceStep(a, b) ==
    /\ a # b
    /\ req[b].pc = "write" /\ req'[b].pc = "done"
    /\ req[a].pc = "done" /\ req[a].n # 0
    /\ req[b].raced = req[a].n

\* what the operation of answered request q makes of the collection q read
OwnResult(q) ==
    LET i == FindIndex(q.snap, Str(q.id))
    IN  CASE q.kind = "create" -> q.snap \o q.resp.items
          [] q.kind = "update" -> [q.snap EXCEPT ![i] = q.resp.items[1]]
          [] q.kind = "delete" ->
                [j \in 1..(Len(q.snap) - 1) |-> IF j < i THEN q.snap[j] ELSE q.snap[j + 1]]

\* the change answered request q made is to be seen in todos
ChangeShows(q, todos) ==
    IF q.kind = "delete" THEN q.resp.items[1].id \notin Ids(todos)
    ELSE \E i \in 1..Len(todos) : todos[i] = q.resp.items[1]

\* C10 as stated, for an earlier writer that deletes: its change is always
\* missing from the document the later writer leaves
C10_ChangeAlwaysMissing ==
    [][\A a \in Slots : \A b \in Slots :
          (RaceStep(a, b) /\ req[a].kind = "delete") =>
              /\ Success(req[a]) /\ Success(req'[b])
              /\ ReadTodos(file') = req'[b].todos
              /\ ~ChangeShows(req[a], ReadTodos(file'))]_vars

\* C10 as amended: the document is what the later writer made of its own read,
\* whatever the earlier writer wrote; the earlier change is missing unless the
\* later writer's own result shows it too
C10_LastWriteWins ==
    [][\A a \in Slots : \A b \in Slots :
          RaceStep(a, b) =>
              /\ Success(req[a]) /\ Success(req'[b])
              /\ ReadTodos(file') = OwnResult(req'[b])
              /\ ChangeShows(req[a], ReadTodos(file')) => ChangeShows(req[a], OwnResult(req'[b]))]_vars

W_C10 ==
    \E a \in Slots : \E b \in Slots :
        /\ a # b
        /\ Answered(a, "create") /\ Answered(b, "update")
        /\ Success(req[a]) /\ Success(req[b])
        /\ req[b].raced = req[a].n /\ req[a].n # 0
        /\ ReadTodos(file) = req[b].todos
        /\ ~ChangeShows(req[a], ReadTodos(file))

(***************************************************************************)
(* C11: a readTodos that runs while a writeFile has the file open returns  *)
(* the whole collection the write found or the whole collection it writes, *)
(* never an emptied or partial one.                                        *)
(***************************************************************************)
\* request r gets the result of its readTodos in this step
ReadStep(r) == req[r].pc = "read" /\ req'[r].pc # "read"

C11_ReadsWholeDocument ==
    [][\A r \in Slots : \A w \in Slots :
          (ReadStep(r) /\ req[w].pc = "write" /\ req[w].io = "open") =>
              req'[r].snap \in {ReadTodos(req[w].over), req[w].todos}]_vars

(***************************************************************************)
(* C12: when data.json is missing, unreadable or malformed as a request    *)
(* arrives, the request is handled as on an empty collection: a list is    *)
(* answered 200 with [], an update or delete 404, and a create with a      *)
(* non-blank text, when its own write does not fail, 201, leaving a        *)
(* collection of just the new item.  No such request is answered 500       *)
(* unless its write failed.                                                *)
(***************************************************************************)
\* readTodos cannot get a collection out of document f
Lost(f) == f.kind # "json"

C12_ReadFailureReadsEmpty ==
    \A r \in Slots :
        LET q == req[r]
        IN  (q.pc = "done" /\ q.kind # "none" /\ Lost(q.before)) =>
                /\ q.snap = <<>>
                /\ q.kind = "list" => q.resp = ListResp(<<>>)
                /\ q.kind \in {"update", "delete"} =>
                      /\ q.resp = ErrorResp(404, "Todo not found")
                      /\ file = q.before
                /\ (q.kind = "create" /\ ~BlankText(q.text) /\ q.io # "failed") =>
                      /\ q.resp.status = 201 /\ q.resp.shape = "item"
                      /\ file.kind = "json"
                      /\ ReadTodos(file) = q.resp.items
                /\ q.io # "failed" => q.resp.status # 500

W_C12 ==
    \E r \in Slots :
        /\ Answered(r, "create") /\ req[r].resp.status = 201
        /\ req[r].before = Absent
        /\ PriorIs(req[r], "list", 200) /\ req[r].prior[1].before = Absent

(***************************************************************************)
(* C13: a create, update or delete whose writeTodos throws is answered 500 *)
(* with the error body of its route and nothing else; it is never answered *)
(* with a success status or an item.                                       *)
(***************************************************************************)
FailedMessage ==
    [create |-> "Failed to create todo", update |-> "Failed to update todo",
     delete |-> "Failed to delete todo"]

C13_WriteFailureAnswered500 ==
    \A r \in Slots :
        LET q == req[r]
        IN  (q.pc = "done" /\ q.io = "failed") =>
                /\ q.kind \in {"create", "update", "delete"}
                /\ q.resp = ErrorResp(500, FailedMessage[q.kind])
                /\ ~Success(q)

W_C13 ==
    \E r \in Slots :
        /\ Answered(r, "create") /\ req[r].io = "failed"
        /\ PriorIs(req[r], "delete", 500) /\ req[r].prior[1].io = "failed"
        /\ file = Truncated

(***************************************************************************)
(* C14: for every stored document, the collection read after writing back  *)
(* what was read is the collection read first, and writing back a second   *)
(* time leaves the document as the first write-back left it.               *)
(***************************************************************************)
C14_RoundTrip ==
    \A r \in Slots :
        LET q == req[r]
        IN  q.kind = "roundtrip" =>
                /\ q.pc \in {"read2", "write2", "done"} => ReadTodos(file) = q.snap
                /\ q.pc \in {"write2", "done"} => q.todos = q.snap
                /\ q.pc = "done" => file = q.over

W_C14 ==
    \E r \in Slots :
        /\ req[r].kind = "roundtrip" /\ req[r].pc = "done"
        /\ Len(req[r].snap) = 2
        /\ req[r].snap[1].updatedAt = Undefined
        /\ req[r].snap[2].updatedAt # Undefined /\ req[r].snap[2].completed = True

(***************************************************************************)
(* C15: when requests run one after another, a stored item has updatedAt   *)
(* only if an update of its id was answered 200, and every update answered *)
(* 200 returns and stores the item with updatedAt set, also when its body  *)
(* carries neither text nor completed.                                     *)
(***************************************************************************)
\* request q is an update that was answered 200
Updated(q) == q.pc = "done" /\ q.kind = "update" /\ q.resp.status = 200

C15_UpdatedAtOnUpdate ==
    LET tr    == Chain(req[1])
        todos == ReadTodos(file)
    IN  /\ \A i \in 1..Len(todos) :
              todos[i].updatedAt # Undefined =>
                  \E k \in 1..Len(tr) : Updated(tr[k]) /\ Str(tr[k].id) = todos[i].id
        /\ Updated(req[1]) =>
              LET it == req[1].resp.items[1]
              IN  /\ it.updatedAt.t = "string" /\ it.updatedAt.v # <<>>
                  /\ todos[FindIndex(todos, Str(req[1].id))] = it

W_C15 ==
    /\ Updated(req[1])
    /\ req[1].text = Undefined /\ req[1].completed = Undefined
    /\ PriorIs(req[1], "create", 201)
    /\ Str(req[1].id) = req[1].prior[1].resp.items[1].id

(***************************************************************************)
(* C16: when requests run one after another, every stored item has the id  *)
(* and the createdAt it was created with: those of an item the behaviour   *)
(* started with, or those a create answered.                               *)
(***************************************************************************)
\* request q is a create that was answered 201
Created(q) == q.pc = "done" /\ q.kind = "create" /\ q.resp.status = 201

\* the items as they were created: at the start, and by the requests of tr
Origins(tr) ==
    {SeedTodos(MaxSeed)[j] : j \in 1..MaxSeed}
        \cup {tr[k].resp.items[1] : k \in {j \in 1..Len(tr) : Created(tr[j])}}

C16_IdCreatedAtKept ==
    LET tr    == Chain(req[1])
        todos == ReadTodos(file)
    IN  \A i \in 1..Len(todos) :
            \E o \in Origins(tr) : todos[i].id = o.id /\ todos[i].createdAt = o.createdAt

W_C16 ==
    /\ Updated(req[1])
    /\ PriorIs(req[1], "create", 201)
    /\ Str(req[1].id) = req[1].prior[1].resp.items[1].id
    /\ req[1].prior[1].resp.items[1].createdAt = Str(ToISOString(0))
    /\ req[1].resp.items[1].updatedAt = Str(ToISOString(1))
    /\ req[1].text # Undefined

(***************************************************************************)
(* C17: when requests run one after another, with any text in their        *)
(* bodies, the text of every stored item is a string that is not empty and *)
(* neither begins nor ends with whitespace.                                *)
(***************************************************************************)
C17_TextTrimmed ==
    LET todos == ReadTodos(file)
    IN  \A i \in 1..Len(todos) :
            /\ todos[i].text.t = "string"
            /\ todos[i].text.v # <<>>
            /\ Head(todos[i].text.v) # " "
            /\ todos[i].text.v[Len(todos[i].text.v)] # " "

W_C17 ==
    /\ Updated(req[1]) /\ req[1].text = Str(<<" ", "a">>)
    /\ PriorIs(req[1], "create", 201) /\ req[1].prior[1].text = Str(<<"a", " ">>)
    /\ Str(req[1].id) = req[1].prior[1].resp.items[1].id

(***************************************************************************)
(* C18: when requests run one after another from an empty collection,     *)
(* with any value under completed in their bodies, the completed of every  *)
(* stored item is true or false.                                           *)
(***************************************************************************)
C18_CompletedBoolean ==
    LET todos == ReadTodos(file)
    IN  FromEmpty(1) => \A i \in 1..Len(todos) : todos[i].completed \in {True, False}

(***************************************************************************)
(* C19: when requests run one after another, the ids of the stored         *)
(* collection, in order, are those the behaviour started with, with the id *)
(* of each create answered 201 added at the end and the id of each delete  *)
(* answered 200 taken out, in the order of the requests; an update moves   *)
(* nothing.                                                                *)
(***************************************************************************)
IdSeq(todos) == [i \in 1..Len(todos) |-> todos[i].id]

\* ids without the first occurrence of id
RemoveFirst(ids, id) ==
    IF \E i \in 1..Len(ids) : ids[i] = id
    THEN LET i == CHOOSE i \in 1..Len(ids) :
                    ids[i] = id /\ \A j \in 1..(i - 1) : ids[j] # id
         IN  SubSeq(ids, 1, i - 1) \o SubSeq(ids, i + 1, Len(ids))
    ELSE ids

\* the ids, in creation order, after the first k requests of tr
RECURSIVE CreationOrder(_, _)
CreationOrder(tr, k) ==
    IF k = 0 THEN IdSeq(ReadTodos(tr[1].before))
    ELSE LET ids == CreationOrder(tr, k - 1)
             q   == tr[k]
         IN  IF Created(q) THEN Append(ids, q.resp.items[1].id)
             ELSE IF q.pc = "done" /\ q.kind = "delete" /\ q.resp.status = 200
             THEN RemoveFirst(ids, Str(q.id))
             ELSE ids

C19_CreationOrder ==
    LET tr == Chain(req[1])
    IN  req[1].n # 0 => IdSeq(ReadTodos(file)) = CreationOrder(tr, Len(tr))

W_C19 ==
    /\ Answered(1, "delete") /\ req[1].resp.status = 200
    /\ PriorIs(req[1], "create", 201)
    /\ Len(ReadTodos(req[1].prior[1].before)) = 2
    /\ FindIndex(ReadTodos(req[1].before), Str(req[1].id)) = 1
    /\ Len(ReadTodos(file)) = 2

(***************************************************************************)
(* C20: a health request is answered 200 with the one static body whether  *)
(* data.json is there, missing, unreadable or malformed; the request reads *)
(* no collection and leaves the document as it was.                        *)
(***************************************************************************)
C20_HealthStatic ==
    \A r \in Slots :
        Answered(r, "health") =>
            /\ req[r].resp = HealthResp
            /\ req[r].snap = <<>> /\ req[r].todos = <<>> /\ req[r].io = ""
            /\ file = req[r].before

W_C20 ==
    \E r \in Slots :
        /\ Answered(r, "health") /\ req[r].before = Malformed
        /\ PriorIs(req[r], "health", 200) /\ req[r].prior[1].before = Malformed

(***************************************************************************)
(* C23: when requests run one after another, an update answered 200 leaves *)
(* a collection of the same length in which every other item is as it was, *)
(* and the item of the id has the trimmed text of the body if the body has *)
(* text, the completed of the body if the body has completed, and its id   *)
(* and createdAt as before.                                                *)
(***************************************************************************)
C23_UpdateTouchesOneItem ==
    LET q   == req[1]
        old == ReadTodos(q.before)
        new == ReadTodos(file)
        i   == FindIndex(old, Str(q.id))
    IN  Updated(q) =>
            /\ Len(new) = Len(old)
            /\ \A j \in 1..Len(old) : j # i => new[j] = old[j]
            /\ IF q.text = Undefined THEN new[i].text = old[i].text
               ELSE new[i].text.t = "string" /\ IsTrimOf(new[i].text.v, q.text.v)
            /\ new[i].completed = IF q.completed = Undefined THEN old[i].completed
                                  ELSE q.completed
            /\ new[i].id = old[i].id /\ new[i].createdAt = old[i].createdAt

W_C23 ==
    /\ Updated(req[1])
    /\ req[1].text = Str(<<"a", " ">>) /\ req[1].completed = True
    /\ Len(ReadTodos(req[1].before)) = 2
    /\ FindIndex(ReadTodos(req[1].before), Str(req[1].id)) = 2
    /\ PriorIs(req[1], "update", 200)

(***************************************************************************)
(* C24: when requests run one after another, every response and the stored *)
(* collection are those of a list kept in memory to which the same         *)
(* requests are applied in the same order, the list taking from the        *)
(* response the id and the times the server drew.                          *)
(***************************************************************************)
\* what the server drew for the item of the response to q
Drawn(q, k) == IF q.resp.items # <<>> THEN q.resp.items[1][k] ELSE Undefined

AbsValid(text) == text.t = "string" /\ \E i \in 1..Len(text.v) : text.v[i] # " "

AbsIndex(list, id) ==
    IF \E i \in 1..Len(list) : list[i].id = id
    THEN CHOOSE i \in 1..Len(list) : list[i].id = id /\ \A j \in 1..(i - 1) : list[j].id # id
    ELSE 0

AbsItem(list, q) ==
    IF q.kind = "create"
    THEN [id |-> Drawn(q, "id"), text |-> Str(Trim(q.text.v)), completed |-> False,
          createdAt |-> Drawn(q, "createdAt"), updatedAt |-> Undefined]
    ELSE LET it == list[AbsIndex(list, Str(q.id))]
         IN  [id |-> it.id,
              text |-> IF q.text = Undefined THEN it.text ELSE Str(Trim(q.text.v)),
              completed |-> IF q.completed = Undefined THEN it.completed ELSE q.completed,
              createdAt |-> it.createdAt, updatedAt |-> Drawn(q, "updatedAt")]

\* the outcome of request q on the list: "ok", or the status of the error
AbsOutcome(list, q) ==
    CASE q.kind = "create" ->
            IF q.text.t \in {"undefined", "null"} \/ q.text = Str(<<>>) THEN "400"
            ELSE IF q.text.t # "string" THEN "500"
            ELSE IF ~AbsValid(q.text) THEN "400" ELSE "ok"
      [] q.kind = "update" ->
            IF AbsIndex(list, Str(q.id)) = 0 THEN "404"
            ELSE IF q.text = Undefined THEN "ok"
            ELSE IF q.text.t # "string" THEN "500"
            ELSE IF ~AbsValid(q.text) THEN "400" ELSE "ok"
      [] q.kind = "delete" -> IF AbsIndex(list, Str(q.id)) = 0 THEN "404" ELSE "ok"
      [] OTHER -> "ok"

AbsResp(list, q) ==
    LET out == AbsOutcome(list, q)
    IN  CASE q.kind = "health" -> HealthResp
          [] q.kind = "list" -> ListResp(list)
          [] q.kind = "create" ->
                IF out = "ok" THEN ItemResp(201, AbsItem(list, q))
                ELSE IF out = "400" THEN ErrorResp(400, "Todo text is required")
                ELSE ErrorResp(500, "Failed to create todo")
          [] q.kind = "update" ->
                IF out = "ok" THEN ItemResp(200, AbsItem(list, q))
                ELSE IF out = "404" THEN ErrorResp(404, "Todo not found")
                ELSE IF out = "400" THEN ErrorResp(400, "Todo text cannot be empty")
                ELSE ErrorResp(500, "Failed to update todo")
          [] q.kind = "delete" ->
                IF out = "ok" THEN DeletedResp(list[AbsIndex(list, Str(q.id))])
                ELSE ErrorResp(404, "Todo not found")

AbsList(list, q) ==
    LET i == AbsIndex(list, Str(q.id))
    IN  IF AbsOutcome(list, q) # "ok" THEN list
        ELSE CASE q.kind = "create" -> list \o <<AbsItem(list, q)>>
               [] q.kind = "update" -> [list EXCEPT ![i] = AbsItem(list, q)]
               [] q.kind = "delete" ->
                     [j \in 1..(Len(list) - 1) |-> IF j < i THEN list[j] ELSE list[j + 1]]
               [] OTHER -> list

\* the list after the answered ones of the first k requests of tr
RECURSIVE AbsRun(_, _)
AbsRun(tr, k) ==
    IF k = 0 THEN ReadTodos(tr[1].before)
    ELSE IF tr[k].pc = "done" THEN AbsList(AbsRun(tr, k - 1), tr[k])
    ELSE AbsRun(tr, k - 1)

C24_RefinesList ==
    LET tr == Chain(req[1])
    IN  req[1].n # 0 =>
            /\ \A k \in 1..Len(tr) :
                  tr[k].pc = "done" => tr[k].resp = AbsResp(AbsRun(tr, k - 1), tr[k])
            /\ ReadTodos(file) = AbsRun(tr, Len(tr))

W_C24 ==
    /\ Answered(1, "list") /\ PriorIs(req[1], "update", 200)
    /\ req[1].prior[1].text = Str(<<" ", "a">>)
    /\ req[1].prior[1].completed = False
    /\ Len(req[1].resp.items) = 2

(***************************************************************************)
(* C26: when requests run one after another, an update of an id no item    *)
(* has is answered 404 also when its text is blank, and an update is       *)
(* answered 400 only when an item has its id.                              *)
(***************************************************************************)
C26_NotFoundBeforeValidation ==
    LET q     == req[1]
        known == Str(q.id) \in Ids(ReadTodos(q.before))
    IN  Answered(1, "update") =>
            /\ (~known /\ q.text.t = "string" /\ Blank(q.text.v)) => q.resp.status = 404
            /\ q.resp.status # 400 \/ known

W_C26 ==
    /\ Answered(1, "update") /\ req[1].id = Nonexistent
    /\ req[1].text = Str(<<>>) /\ req[1].resp.status = 404
    /\ PriorIs(req[1], "update", 400) /\ req[1].prior[1].text = Str(<<>>)

(***************************************************************************)
(* C25: of the steps of a create, update or delete, only the one after     *)
(* which it is answered with success writes the document, and it writes    *)
(* the whole collection of the request; a request answered 400 or 404 has  *)
(* written nothing, whatever other requests do meanwhile.                  *)
(***************************************************************************)
\* request r takes a step: its record changes in more than the mark a write
\* of another request leaves in it
Acts(r) == [req'[r] EXCEPT !.raced = 0] # [req[r] EXCEPT !.raced = 0]

C25_OneWrite ==
    [][\A r \in Slots :
          Acts(r) =>
              /\ req[r].pc = "write" =>
                    /\ req'[r].pc = "done" /\ Success(req'[r])
                    /\ file' = WriteTodos(req[r].todos)
              /\ req[r].pc # "write" => file' = file
              /\ (req'[r].pc = "done" /\ req'[r].resp.status \in {400, 404}) =>
                    file' = file /\ req[r].pc # "write"]_vars

W_C25 ==
    \E a \in Slots : \E b \in Slots :
        /\ Answered(a, "update") /\ req[a].resp.status = 404
        /\ Answered(b, "create") /\ req[b].resp.status = 201
        /\ req[a].before # file /\ req[a].snap = req[b].todos
        /\ file = WriteTodos(req[b].todos)

(***************************************************************************)
(* C27: a list sent on the connection of a delete after the delete was     *)
(* answered 200 returns no item with the deleted id, whatever create or    *)
(* update ran while the delete did.                                        *)
(***************************************************************************)
C27_DeletedStaysDeleted ==
    \A r \in Slots :
        (Answered(r, "list") /\ PriorIs(req[r], "delete", 200)) =>
            Str(req[r].prior[1].id) \notin Ids(req[r].resp.items)

(***************************************************************************)
(* C28: when every storage read and write that is started completes or     *)
(* fails, every request that is being handled comes to be answered, with   *)
(* status 200, 201, 400, 404 or 500; an answer, once given, is the answer  *)
(* of that request for good.                                               *)
(***************************************************************************)
Statuses == {200, 201, 400, 404, 500}

C28_AlwaysAnswered ==
    /\ \A n \in 1..MaxRequests :
          (req[1].n = n /\ req[1].pc # "done")
              ~> (req[1].n = n /\ req[1].pc = "done" /\ req[1].resp.status \in Statuses)
    /\ [][\A r \in Slots :
            (req[r].pc = "done" /\ req'[r].n = req[r].n) => req'[r] = req[r]]_vars

W_C28 ==
    /\ Answered(1, "update") /\ req[1].io = "failed" /\ req[1].resp.status = 500
    /\ PriorIs(req[1], "list", 200)

(***************************************************************************)
(* C21: a poll that completes sets the page's list to the list of the      *)
(* response, whatever the page held; and when polls keep completing, from  *)
(* some moment on the page's list is the stored collection for good (the   *)
(* collection stops changing, as the behaviour has finitely many changes). *)
(***************************************************************************)
C21_PollConverges ==
    /\ [][(/\ client.pending[PollSlot].kind = "load"
           /\ client'.pending[PollSlot] = NoCall
           /\ client'.outcome = "ok") => client'.todos = req[PollSlot].resp.items]_vars
    /\ <>[](client.todos = ReadTodos(file))

W_C21 ==
    /\ client.pending[PollSlot] = NoCall /\ client.outcome = "ok"
    /\ client.pending[UserSlot].kind = "delete"
    /\ Answered(UserSlot, "delete") /\ req[UserSlot].resp.status = 200
    /\ req[UserSlot].n = client.ticket + 1
    /\ Len(ReadTodos(req[UserSlot].before)) = 2
    /\ client.todos = ReadTodos(file)

(***************************************************************************)
(* C22: the step in which an add, update or delete call of the page fails  *)
(* leaves the page's list as it was and sends nothing; a request reaches   *)
(* the server on the user connection only for a call that is pending, once *)
(* per call.                                                               *)
(***************************************************************************)
C22_FailureLeavesList ==
    [][/\ (/\ client.pending[UserSlot] # NoCall
            /\ client'.pending[UserSlot] = NoCall
            /\ client'.outcome = "failed") =>
                /\ client'.todos = client.todos
                /\ client'.pending[PollSlot] = client.pending[PollSlot]
                /\ UNCHANGED <<file, req, nreq>>
       /\ req'[UserSlot].n # req[UserSlot].n =>
                /\ client.pending[UserSlot] # NoCall
                /\ client.ticket = nreq /\ nreq' = nreq + 1]_vars

W_C22 ==
    /\ client.outcome = "failed" /\ client.pending[UserSlot] = NoCall
    /\ Answered(UserSlot, "delete") /\ req[UserSlot].resp.status = 404
    /\ req[UserSlot].n = client.ticket + 1
    /\ Str(req[UserSlot].id) \in Ids(client.todos)

(***************************************************************************)
(* C29: when no two stored items have the same id, no two entries of the   *)
(* page's list have the same id.                                           *)
(***************************************************************************)
C29_ClientUniqueIds ==
    NoDuplicateId(ReadTodos(file)) => NoDuplicateId(client.todos)

====
